---- MODULE Spec2Model ----
(***************************************************************************)
(* The memory subsystem of the MiDO agent (src/memory_system.py): the      *)
(* durable log memory.jsonl, the persisted Chroma collection and the       *)
(* in-memory working set self.memories, with the operations add_memory,    *)
(* get_relevant_memories, _consolidate_memories, prune_memories and the    *)
(* construction of a MemorySystem (a process start); and the agent around  *)
(* it (src/mido.py, src/main.py): the conversation buffer, the state log   *)
(* state.jsonl and the turns of the orchestration loop.                    *)
(*                                                                         *)
(* Time is a clock `now` counting days.  A timestamp is <<t, n>>: the     *)
(* clock reading t and the serial number n of the entry, the part of an    *)
(* ISO timestamp below the clock's resolution.                             *)
(***************************************************************************)
EXTENDS Integers, Sequences, FiniteSets, TLC

\* ---------------------------------------------------------------- bounds
MaxTime == 1          \* the clock stops advancing here
MaxAdds == 2          \* the caller adds while fewer add_memory calls were made
RecursionLimit == 2   \* nested consolidation runs before RecursionError
MaxCopies == 2        \* a restart or prune starts with fewer copies of each document
MaxAccess == 2        \* retrieval is called while the access counts sum to less
MaxMessages == 10     \* a turn starts while fewer messages were appended
MaxAppends == 3       \* a caller of add_message appends while fewer were appended
MaxSaves == 3         \* a caller of save_state or save_all saves while fewer states were saved

\* ------------------------------------------------------------- constants
chunk_size == 1000
chunk_overlap == 200
HeaderLen == 60       \* "Consolidated insights from n memories about c:\n"
ContextLen == 10      \* "\nContext: "
FlushAt == 10         \* main(): len(messages) >= 10
DefaultLimit == 5     \* get_relevant_memories(limit=5)
ConversationImportance == 5   \* save_conversation: importance=5

\* -------------------------------------------------------------- schema
MemoryType == {"episodic", "semantic", "procedural", "reflection", "conversation"}
MemoryCategory == {"human_interaction", "learning", "self_awareness", "skill", "knowledge"}

\* What a call of the embedding and indexing service does: it stores the
\* documents, or it raises before any document is stored, or it raises after
\* the first document was stored.
EmbeddingOutcomes == {"ok", "fails", "fails_late"}

\* The entries the caller passes to add_memory: category, importance and
\* len(content).  An importance of 5 meets a threshold of 5 and not one of 7.
Inputs ==
  {[category |-> "learning", importance |-> 5, content |-> 1100],
   [category |-> "learning", importance |-> 7, content |-> 400],
   [category |-> "skill", importance |-> 5, content |-> 400]}

\* The limits and filters the caller passes to get_relevant_memories.
Limits == {0, 1, 2}
TypeFilters == {"None", "semantic"}
CategoryFilters == {"None", "skill"}

\* memory_settings of mido.yaml: the configurations a process may start with.
Configs ==
  [importance_threshold : {5, 7},
   consolidation_interval_hours : {12},
   memory_retention_days : {0, 1},
   pruning_importance_threshold : {7},
   min_access_keep : {2}]

VARIABLES
  settings,            \* self.settings
  memories,            \* self.memories, the working set
  memory_log,          \* the records of memory.jsonl
  vector_store,        \* the documents of the persisted Chroma collection
  last_consolidation,  \* self.last_consolidation
  now,                 \* datetime.now(), in days
  added,               \* history: every call of add_memory, <<entry, threshold>>
  call,                \* history: the last operation and what it did
  embedding,           \* what the embedding and indexing service does on a call
  current_conversation,  \* MiDO.current_conversation.messages
  state_log,           \* the records of state.jsonl
  current_state,       \* MiDO.current_state
  pc,                  \* the position of main() in its loop
  sent                 \* history: the number of add_message calls

\* The agent around the memory system.
mido == <<current_conversation, state_log, current_state, pc, sent>>

vars == <<settings, memories, memory_log, vector_store, last_consolidation, now, added, call,
          embedding, current_conversation, state_log, current_state, pc, sent>>

\* MemoryEntry as the caller builds it: access_count 0, consolidated False.
MemoryEntry(ts, mtype, cat, content, imp, refs, cons) ==
  [timestamp |-> ts, memory_type |-> mtype, category |-> cat, content |-> content,
   importance |-> imp, references |-> refs, last_accessed |-> <<>>,
   access_count |-> 0, consolidated |-> cons,
   conversation |-> <<>>, message_count |-> 0]

\* The next timestamp: the clock reading and the serial number of the entry.
Stamp(hist) == <<now, Len(hist) + 1>>

\* ------------------------------------------------------------ chunking
\* len of one "role: content" line of a conversation.
MessageLen == 40

\* len(text) of _create_memory_text: content, "\nContext: " and the context,
\* and "\nConversation:\n" with one line per message if there is a conversation.
CreateMemoryTextLen(memory) ==
  memory.content + ContextLen
    + (IF memory.conversation = <<>> THEN 0
       ELSE 15 + Len(memory.conversation) * MessageLen)

\* RecursiveCharacterTextSplitter(chunk_size, chunk_overlap): windows of
\* chunk_size characters, each starting chunk_size - chunk_overlap after the last.
SplitTextCount(len) ==
  IF len <= chunk_size THEN 1
  ELSE 1 + ((len - chunk_size) + (chunk_size - chunk_overlap) - 1) \div (chunk_size - chunk_overlap)

Document(memory, i, total) ==
  [timestamp |-> memory.timestamp, memory_type |-> memory.memory_type,
   category |-> memory.category, importance |-> memory.importance,
   chunk_index |-> i, total_chunks |-> total]

\* The documents of one entry, one per chunk of its text.
Documents(memory) ==
  LET total == SplitTextCount(CreateMemoryTextLen(memory))
  IN [i \in 1..total |-> Document(memory, i - 1, total)]

RECURSIVE AllDocuments(_)
AllDocuments(mems) ==
  IF mems = <<>> THEN <<>> ELSE Documents(Head(mems)) \o AllDocuments(Tail(mems))

\* Mutant: the line is written without the references.
ModelDumpJsonNoReferences(memory) ==
  <<memory.timestamp, memory.memory_type, memory.category, memory.content,
    memory.importance, <<>>, memory.last_accessed,
    memory.access_count, memory.consolidated,
    memory.conversation, memory.message_count>>

\* Mutant: the file is opened for writing, not for appending.
OverwriteLine(lines, line) == <<line>>

\* open(path, "a") and f.write(line + "\n")
AppendLine(lines, line) == Append(lines, line)

\* model_dump_json: one line of memory.jsonl, the fields in declaration order.
ModelDumpJson(memory) ==
  <<memory.timestamp, memory.memory_type, memory.category, memory.content,
    memory.importance, memory.references, memory.last_accessed,
    memory.access_count, memory.consolidated,
    memory.conversation, memory.message_count>>

\* MemoryEntry(**json.loads(line))
ParseLine(line) ==
  [timestamp |-> line[1], memory_type |-> line[2], category |-> line[3],
   content |-> line[4], importance |-> line[5], references |-> line[6],
   last_accessed |-> line[7], access_count |-> line[8], consolidated |-> line[9],
   conversation |-> line[10], message_count |-> line[11]]

\* Mutant: only the last record of the file is loaded.
LoadLastMemory(lines) ==
  IF lines = <<>> THEN <<>> ELSE <<ParseLine(lines[Len(lines)])>>

\* _load_memories: one MemoryEntry per line of memory.jsonl, in file order.
LoadMemories(lines) == [i \in 1..Len(lines) |-> ParseLine(lines[i])]

\* vector_store.add_documents(documents): what the collection holds after
\* the call, and whether the call raises.
AddDocuments(collection, documents) ==
  IF embedding = "ok" THEN collection \o documents
  ELSE IF embedding = "fails" THEN collection
  ELSE collection \o <<documents[1]>>

\* Mutant: a failure of add_documents is swallowed.
AddDocumentsNeverRaises == FALSE

AddDocumentsRaises == embedding # "ok"

\* Chroma(collection_name, persist_directory) opens the persisted collection
\* and add_documents, called if there are documents, adds to what it holds.
InitializeVectorStore(mems, collection) ==
  IF AllDocuments(mems) = <<>> THEN collection
  ELSE AddDocuments(collection, AllDocuments(mems))

InitializeVectorStoreRaises(mems) == AllDocuments(mems) # <<>> /\ AddDocumentsRaises

\* similarity_search embeds the query before it searches.
EmbedQueryRaises == embedding # "ok"

\* ------------------------------------------------------------ add_memory

\* Mutant: the importance gate is missing.
MeetsThresholdAlways(memory, s) == TRUE

\* Mutant: an importance equal to the threshold does not pass the gate.
MeetsThresholdStrict(memory, s) == memory.importance > s.importance_threshold

MeetsThreshold(memory, s) == memory.importance >= s.importance_threshold

ConsolidationDue(ms, s) ==
  (now - ms.last_consolidation) * 24 > s.consolidation_interval_hours

\* The store as one handler sees and changes it.  depth: the consolidation runs
\* in progress; nest: the deepest nesting reached; runs: the runs started;
\* checked: _check_consolidation ran; raised: an exception left the handler.
Store ==
  [memories |-> memories, memory_log |-> memory_log, vector_store |-> vector_store,
   last_consolidation |-> last_consolidation, added |-> added,
   depth |-> 0, nest |-> 0, runs |-> 0, checked |-> FALSE, raised |-> FALSE]

RECURSIVE add_memory(_, _, _), ConsolidateMemories(_, _), ConsolidateLoop(_, _, _)

\* _check_consolidation: start a run when the interval has elapsed.
CheckConsolidation(ms, depth) ==
  LET ms1 == [ms EXCEPT !.checked = TRUE]
  IN IF ConsolidationDue(ms1, settings) THEN ConsolidateMemories(ms1, depth) ELSE ms1

\* add_memory: index the chunks, append the record, insert into the working
\* set, then check whether consolidation is due.  depth: the consolidation
\* runs in progress when add_memory is called.
add_memory(ms, memory, depth) ==
  LET logged == [ms EXCEPT !.added = Append(@, [entry |-> memory,
                                               threshold |-> settings.importance_threshold])]
  IN IF MeetsThreshold(memory, settings)
     THEN IF AddDocumentsRaises
          THEN [logged EXCEPT !.vector_store = AddDocuments(@, Documents(memory)),
                              !.raised = TRUE]
          ELSE CheckConsolidation(
                 [logged EXCEPT !.vector_store = AddDocuments(@, Documents(memory)),
                                !.memory_log = AppendLine(@, ModelDumpJson(memory)),
                                !.memories = Append(@, memory)],
                 depth)
     ELSE logged

\* ------------------------------------------------- _consolidate_memories
\* The positions in the working set of the entries with consolidated = False.
RECURSIVE UnconsolidatedFrom(_, _)
UnconsolidatedFrom(mems, i) ==
  IF i > Len(mems) THEN <<>>
  ELSE (IF mems[i].consolidated THEN <<>> ELSE <<i>>) \o UnconsolidatedFrom(mems, i + 1)

\* Mutant: every entry of the working set is taken, whatever its flag.
UnconsolidatedAll(mems) == [i \in 1..Len(mems) |-> i]

Unconsolidated(mems) == UnconsolidatedFrom(mems, 1)

\* The keys of by_category, in the order a dict keeps: first insertion.
RECURSIVE CategoryOrder(_, _, _)
CategoryOrder(mems, unc, seen) ==
  IF unc = <<>> THEN <<>>
  ELSE LET c == mems[Head(unc)].category
       IN IF c \in seen THEN CategoryOrder(mems, Tail(unc), seen)
          ELSE <<c>> \o CategoryOrder(mems, Tail(unc), seen \cup {c})

\* by_category[c]: the unconsolidated entries of category c, in working-set order.
RECURSIVE ByCategory(_, _, _)
ByCategory(mems, unc, c) ==
  IF unc = <<>> THEN <<>>
  ELSE (IF mems[Head(unc)].category = c THEN <<Head(unc)>> ELSE <<>>)
       \o ByCategory(mems, Tail(unc), c)

RECURSIVE MaxImportance(_, _)
MaxImportance(mems, members) ==
  IF Len(members) = 1 THEN mems[Head(members)].importance
  ELSE LET rest == MaxImportance(mems, Tail(members))
           first == mems[Head(members)].importance
       IN IF first >= rest THEN first ELSE rest

\* len(content): the header and one "- content" line per source, joined by "\n".
RECURSIVE ContentLen(_, _)
ContentLen(mems, members) ==
  IF members = <<>> THEN 0
  ELSE 2 + mems[Head(members)].content + ContentLen(mems, Tail(members))

SourceTimestamps(mems, members) == [k \in 1..Len(members) |-> mems[members[k]].timestamp]

GroupLargeEnough(members) == Len(members) >= 2

ConsolidatedMemory(ms, c, members) ==
  MemoryEntry(Stamp(ms.added), "semantic", c,
              HeaderLen + ContentLen(ms.memories, members) + (Len(members) - 1),
              MaxImportance(ms.memories, members),
              SourceTimestamps(ms.memories, members), TRUE)

\* Mutant: the sources are not flagged.
MarkConsolidatedNone(mems, members) == mems

\* for memory in memories: memory.consolidated = True
MarkConsolidated(mems, members) ==
  [i \in 1..Len(mems) |->
     IF \E k \in 1..Len(members) : members[k] = i
     THEN [mems[i] EXCEPT !.consolidated = TRUE] ELSE mems[i]]

\* The loop over by_category.items().  unc is the list of unconsolidated
\* entries taken when the run started; an exception raised by add_memory
\* leaves the loop before the sources are marked.
ConsolidateLoop(ms, cats, unc) ==
  IF cats = <<>> THEN ms
  ELSE LET members == ByCategory(ms.memories, unc, Head(cats))
       IN IF ~GroupLargeEnough(members) THEN ConsolidateLoop(ms, Tail(cats), unc)
          ELSE LET ms1 == add_memory(ms, ConsolidatedMemory(ms, Head(cats), members), ms.depth)
               IN IF ms1.raised THEN ms1
                  ELSE ConsolidateLoop(
                         [ms1 EXCEPT !.memories = MarkConsolidated(@, members)],
                         Tail(cats), unc)

\* _consolidate_memories, entered with `depth` runs already in progress.  The
\* interpreter raises RecursionError when the calls nest deeper than its limit.
ConsolidateMemories(ms, depth) ==
  IF depth >= RecursionLimit THEN [ms EXCEPT !.raised = TRUE]
  ELSE LET unc == Unconsolidated(ms.memories)
           entered == [ms EXCEPT !.depth = depth + 1,
                                 !.runs = @ + 1,
                                 !.nest = IF depth + 1 > @ THEN depth + 1 ELSE @]
       IN IF Len(unc) < 2 THEN [entered EXCEPT !.depth = depth]
          ELSE LET done == ConsolidateLoop(entered, CategoryOrder(ms.memories, unc, {}), unc)
               IN IF done.raised THEN done
                  ELSE [done EXCEPT !.last_consolidation = now, !.depth = depth]

\* ------------------------------------------------- get_relevant_memories
NoFilter == "None"

\* filter_dict: a field is matched only when the caller gave it.
MatchesFilter(doc, memory_type, category) ==
  /\ (memory_type # NoFilter => doc.memory_type = memory_type)
  /\ (category # NoFilter => doc.category = category)

Matching(collection, memory_type, category) ==
  {i \in 1..Len(collection) : MatchesFilter(collection[i], memory_type, category)}

Min(a, b) == IF a <= b THEN a ELSE b

\* The rankings of n of the documents S, best first.  The scores are the
\* embedding capability's, so every order is possible; the chunks of one
\* entry, which differ in nothing the caller reads, are taken in one order.
RECURSIVE Rankings(_, _, _)
Rankings(collection, S, n) ==
  IF n = 0 THEN {<<>>}
  ELSE UNION {LET i == CHOOSE j \in S : collection[j].timestamp = ts
              IN {<<collection[i]>> \o r : r \in Rankings(collection, S \ {i}, n - 1)} :
              ts \in {collection[j].timestamp : j \in S}}

\* similarity_search_with_relevance_scores(query, k, filter): the k best
\* matching documents, best first.
SimilaritySearch(collection, k, memory_type, category) ==
  LET S == Matching(collection, memory_type, category)
  IN Rankings(collection, S, Min(k, Cardinality(S)))

\* next((m for m in self.memories if m.timestamp == timestamp), None): the
\* position of the first entry with the timestamp, 0 for None.
\* The hits of a search without the repeated hits of an entry, which
\* _process_search_results skips: the entries hit, in the order of their first
\* hits.  A set D of entries can be the entries hit by n hits if it has at
\* most n members and the collection holds at least n documents of them.
HitSets(collection, k) ==
  LET n == Min(k, Len(collection))
      stamps == {collection[i].timestamp : i \in 1..Len(collection)}
  IN {D \in SUBSET stamps :
        /\ Cardinality(D) <= n
        /\ n <= Cardinality({i \in 1..Len(collection) : collection[i].timestamp \in D})}

RECURSIVE Orders(_)
Orders(D) ==
  IF D = {} THEN {<<>>}
  ELSE UNION {{<<[timestamp |-> d]>> \o r : r \in Orders(D \ {d})} : d \in D}

FirstHits(collection, k) == UNION {Orders(D) : D \in HitSets(collection, k)}

\* Mutant: a timestamp that is not found resolves to the first entry.
FindMemoryOrFirst(mems, timestamp, i) ==
  IF \E k \in 1..Len(mems) : mems[k].timestamp = timestamp
  THEN CHOOSE k \in 1..Len(mems) : mems[k].timestamp = timestamp
  ELSE IF mems = <<>> THEN 0 ELSE 1

\* next((m for m in self.memories if m.timestamp == timestamp), None): the
\* position of the entry, 0 for None.
RECURSIVE FindMemory(_, _, _)
FindMemory(mems, timestamp, i) ==
  IF i > Len(mems) THEN 0
  ELSE IF mems[i].timestamp = timestamp THEN i
  ELSE FindMemory(mems, timestamp, i + 1)

\* Mutant: the hits are not deduplicated.
AlreadySeenNever(timestamp, seen) == FALSE

AlreadySeen(timestamp, seen) == timestamp \in seen

\* Mutant: the loop stops one entry late.
LimitReachedLate(relevant, limit) == Len(relevant) > limit

LimitReached(relevant, limit) == Len(relevant) >= limit

\* Mutant: an access also raises the importance of the entry.
TouchAndBoost(memory) ==
  [memory EXCEPT !.last_accessed = <<now>>, !.access_count = @ + 1, !.importance = @ + 1]

\* memory.last_accessed = datetime.now().isoformat(); memory.access_count += 1
Touch(memory) ==
  [memory EXCEPT !.last_accessed = <<now>>, !.access_count = @ + 1]

\* _process_search_results: the loop over the hits.  acc holds the working
\* set, relevant_memories (positions) and seen_timestamps.
RECURSIVE ProcessSearchResults(_, _, _)
ProcessSearchResults(acc, results, limit) ==
  IF results = <<>> THEN acc
  ELSE LET timestamp == Head(results).timestamp
           i == FindMemory(acc.memories, timestamp, 1)
       IN IF AlreadySeen(timestamp, acc.seen) \/ i = 0
          THEN ProcessSearchResults(acc, Tail(results), limit)
          ELSE LET acc1 == [memories |-> [acc.memories EXCEPT ![i] = Touch(@)],
                            relevant |-> Append(acc.relevant, i),
                            seen |-> acc.seen \cup {timestamp}]
               IN IF LimitReached(acc1.relevant, limit) THEN acc1
                  ELSE ProcessSearchResults(acc1, Tail(results), limit)

\* Mutant: an entry stamped exactly at the cutoff is kept.
KeepAtCutoff(m, s) ==
  \/ m.timestamp[1] >= now - s.memory_retention_days
  \/ m.importance >= s.pruning_importance_threshold
  \/ m.access_count >= s.min_access_keep
  \/ m.consolidated

\* ------------------------------------------------------- prune_memories
Keep(m, s) ==
  \/ m.timestamp[1] > now - s.memory_retention_days
  \/ m.importance >= s.pruning_importance_threshold
  \/ m.access_count >= s.min_access_keep
  \/ m.consolidated

Survivors(mems, s) == SelectSeq(mems, LAMBDA m : Keep(m, s))

\* ----------------------------------------------------------- state.jsonl
\* initial_state of mido.yaml.
initial_state == [current_focus |-> "initial", energy_level |-> 50]

\* The states a reflection returns as state_update.
StateUpdates ==
  {[current_focus |-> "talking", energy_level |-> 49],
   [current_focus |-> "resting", energy_level |-> 48]}

\* state.model_dump_json(): one line of state.jsonl.
StateDumpJson(state) == <<state.current_focus, state.energy_level>>

\* State(**json.loads(line))
ParseState(line) == [current_focus |-> line[1], energy_level |-> line[2]]

\* Mutant: the first record is loaded, not the last.
LoadFirstOrInitState(lines) ==
  IF lines = <<>> THEN initial_state ELSE ParseState(lines[1])

\* _load_or_init_state: the last record of state.jsonl, or initial_state.
LoadOrInitState(lines) ==
  IF lines = <<>> THEN initial_state ELSE ParseState(lines[Len(lines)])

\* ---------------------------------------------------------------- state
\* again: a consolidation run that follows an operation that ran one.
\* restored: the records a restart loaded that the working set had lost.
NoCall ==
  [op |-> "init", again |-> FALSE, raised |-> FALSE, nest |-> 0, runs |-> 0, checked |-> FALSE,
   limit |-> 0, hits |-> <<>>, result |-> <<>>, evicted |-> <<>>, restored |-> <<>>]

Init ==
  /\ settings \in Configs
  /\ memories = <<>>
  /\ memory_log = <<>>
  /\ vector_store = <<>>
  /\ last_consolidation = 0
  /\ now = 0
  /\ added = <<>>
  /\ call = NoCall
  /\ embedding = "ok"
  /\ current_conversation = <<>>
  /\ state_log = <<>>
  /\ current_state = initial_state
  /\ pc = "action"
  /\ sent = 0

\* What a handler that went through add_memory or _consolidate_memories left.
Commit(ms, op) ==
  /\ memories' = ms.memories
  /\ memory_log' = ms.memory_log
  /\ vector_store' = ms.vector_store
  /\ last_consolidation' = ms.last_consolidation
  /\ added' = ms.added
  /\ call' = [NoCall EXCEPT !.op = op, !.again = (op = "consolidate" /\ call.runs >= 1),
                            !.raised = ms.raised, !.nest = ms.nest,
                            !.runs = ms.runs, !.checked = ms.checked]
  /\ UNCHANGED <<settings, now>>

\* An exception that leaves a handler ends the process: main() catches only
\* KeyboardInterrupt.
Running == ~call.raised

Copies(collection, doc) == Cardinality({i \in 1..Len(collection) : collection[i] = doc})

RECURSIVE SumAccess(_)
SumAccess(mems) == IF mems = <<>> THEN 0 ELSE Head(mems).access_count + SumAccess(Tail(mems))

\* The caller builds an entry and passes it to add_memory.
AddWithin(e, n) ==
  /\ Running
  /\ Len(added) < n
  /\ Commit(add_memory(Store, MemoryEntry(Stamp(added), "episodic", e.category, e.content,
                                          e.importance, <<>>, FALSE), 0),
            "add")
  /\ UNCHANGED <<embedding, mido>>

Add(e) == AddWithin(e, MaxAdds)

\* get_relevant_memories(context, memory_type, category, limit)
Retrieve(limit, memory_type, category) ==
  /\ Running
  /\ SumAccess(memories) < MaxAccess
  /\ IF EmbedQueryRaises
     THEN /\ memories' = memories
          /\ call' = [NoCall EXCEPT !.op = "retrieve", !.limit = limit, !.raised = TRUE]
     ELSE \E results \in SimilaritySearch(vector_store, limit * 2, memory_type, category) :
            LET acc == ProcessSearchResults([memories |-> memories, relevant |-> <<>>, seen |-> {}],
                                            results, limit)
            IN /\ memories' = acc.memories
               /\ call' = [NoCall EXCEPT !.op = "retrieve", !.limit = limit,
                             !.hits = [j \in 1..Len(results) |-> results[j].timestamp],
                             !.result = [j \in 1..Len(acc.relevant) |-> acc.memories[acc.relevant[j]]]]
  /\ UNCHANGED <<settings, memory_log, vector_store, last_consolidation, now, added>>
  /\ UNCHANGED <<embedding, mido>>

\* _consolidate_memories called from outside add_memory (MiDO.save_all).
Consolidate ==
  /\ Running
  /\ Commit(ConsolidateMemories(Store, 0), "consolidate")
  /\ UNCHANGED <<embedding, mido>>

\* prune_memories: filter the working set, then _initialize_vector_store.
Prune ==
  /\ Running
  /\ \A i \in 1..Len(vector_store) : Copies(vector_store, vector_store[i]) < MaxCopies
  /\ memories' = Survivors(memories, settings)
  /\ vector_store' = InitializeVectorStore(memories', vector_store)
  /\ call' = [NoCall EXCEPT !.op = "prune",
                !.raised = InitializeVectorStoreRaises(memories'),
                !.evicted = SelectSeq(memories, LAMBDA m : ~Keep(m, settings))]
  /\ UNCHANGED <<settings, memory_log, last_consolidation, now, added>>
  /\ UNCHANGED <<embedding, mido>>

\* The timestamps of the records of memory.jsonl that have no entry in the
\* working set: what _load_memories brings back.
NotLoaded(mems, lines) ==
  SelectSeq([j \in 1..Len(lines) |-> lines[j][1]],
            LAMBDA t : \A i \in 1..Len(mems) : mems[i].timestamp # t)

\* The process ends and MiDO.__init__ runs again, with the settings mido.yaml
\* then holds: MemorySystem.__init__, then the state and an empty conversation.
Restart ==
  /\ \A i \in 1..Len(vector_store) : Copies(vector_store, vector_store[i]) < MaxCopies
  /\ settings' \in Configs
  /\ memories' = LoadMemories(memory_log)
  /\ vector_store' = InitializeVectorStore(memories', vector_store)
  /\ last_consolidation' = now
  /\ call' = [NoCall EXCEPT !.op = "restart",
                !.raised = InitializeVectorStoreRaises(memories'),
                !.restored = NotLoaded(memories, memory_log)]
  /\ IF InitializeVectorStoreRaises(memories')
     THEN UNCHANGED <<current_conversation, current_state>>
     ELSE /\ current_conversation' = <<>>
          /\ current_state' = LoadOrInitState(state_log)
  /\ pc' = "action"
  /\ UNCHANGED <<memory_log, now, added, embedding, state_log, sent>>

\* A day passes.
Tick ==
  /\ now < MaxTime
  /\ now' = now + 1
  /\ call' = [NoCall EXCEPT !.op = "tick", !.raised = call.raised]
  /\ UNCHANGED <<settings, memories, memory_log, vector_store, last_consolidation, added>>
  /\ UNCHANGED <<embedding, mido>>

\* ------------------------------------------------------------------ MiDO
\* add_message: a message with its role; n tells the messages apart.
AddMessage(messages, role) == Append(messages, [role |-> role, n |-> sent + 1])

\* The entry save_conversation builds from the buffered messages.
ConversationMemory(ms, messages) ==
  [MemoryEntry(Stamp(ms.added), "conversation", "human_interaction", 28,
               ConversationImportance, <<>>, FALSE)
     EXCEPT !.conversation = messages, !.message_count = Len(messages)]

\* save_conversation: nothing for an empty buffer; otherwise add_memory of the
\* conversation entry and then a new, empty conversation.
SaveConversation(ms, messages) ==
  IF messages = <<>> THEN [store |-> ms, messages |-> messages]
  ELSE LET ms1 == add_memory(ms, ConversationMemory(ms, messages), 0)
       IN [store |-> ms1, messages |-> IF ms1.raised THEN messages ELSE <<>>]

\* save_state: append the record, then set current_state.
SaveState(state) ==
  /\ state_log' = AppendLine(state_log, StateDumpJson(state))
  /\ current_state' = state

\* save_all: save_conversation, save_state(current_state), _consolidate_memories.
SaveAll(op) ==
  LET flushed == SaveConversation(Store, current_conversation)
  IN /\ current_conversation' = flushed.messages
     /\ IF flushed.store.raised
        THEN /\ Commit(flushed.store, op)
             /\ UNCHANGED <<state_log, current_state, pc>>
        ELSE LET ms == ConsolidateMemories(flushed.store, 0)
             IN /\ SaveState(current_state)
                /\ Commit(ms, op)
                /\ pc' = IF ms.raised THEN pc ELSE "done"
     /\ UNCHANGED <<embedding, sent>>

\* The methods of MiDO called one at a time, as main() or another caller does.
Alive == Running /\ pc # "done"

AppendMessage(role) ==
  /\ Alive
  /\ sent < MaxAppends
  /\ current_conversation' = AddMessage(current_conversation, role)
  /\ sent' = sent + 1
  /\ call' = [NoCall EXCEPT !.op = "append"]
  /\ UNCHANGED <<settings, memories, memory_log, vector_store, last_consolidation, now, added,
                 embedding, state_log, current_state, pc>>

\* save_conversation, the whole of it.
Flush ==
  /\ Alive
  /\ LET flushed == SaveConversation(Store, current_conversation)
     IN /\ current_conversation' = flushed.messages
        /\ Commit(flushed.store, "flush")
  /\ UNCHANGED <<embedding, state_log, current_state, pc, sent>>

Save(state) ==
  /\ Alive
  /\ Len(state_log) < MaxSaves
  /\ SaveState(state)
  /\ call' = [NoCall EXCEPT !.op = "save"]
  /\ UNCHANGED <<settings, memories, memory_log, vector_store, last_consolidation, now, added,
                 embedding, current_conversation, pc, sent>>

Shutdown ==
  /\ Alive
  /\ Len(state_log) < MaxSaves
  /\ SaveAll("exit")

InLoop == pc \in {"action", "input", "reflect", "reset"}

\* main(): get_action, which retrieves memories and asks for a completion,
\* then add_message("assistant", ...).
GetAction ==
  /\ Running
  /\ pc = "action"
  /\ sent < MaxMessages
  /\ IF EmbedQueryRaises
     THEN /\ call' = [NoCall EXCEPT !.op = "action", !.raised = TRUE]
          /\ UNCHANGED <<memories, current_conversation, pc, sent>>
     ELSE \E results \in FirstHits(vector_store, DefaultLimit * 2),
             completes \in BOOLEAN :
            LET acc == ProcessSearchResults([memories |-> memories, relevant |-> <<>>, seen |-> {}],
                                            results, DefaultLimit)
            IN /\ memories' = acc.memories
               /\ call' = [NoCall EXCEPT !.op = "action", !.raised = ~completes]
               /\ IF completes
                  THEN /\ current_conversation' = AddMessage(current_conversation, "assistant")
                       /\ sent' = sent + 1
                       /\ pc' = "input"
                  ELSE UNCHANGED <<current_conversation, pc, sent>>
  /\ UNCHANGED <<settings, memory_log, vector_store, last_consolidation, now, added,
                 embedding, state_log, current_state>>

\* main(): the user's input: an exit command ends the loop after save_all,
\* anything else is appended to the conversation.
UserInput ==
  /\ Running
  /\ pc = "input"
  /\ \/ SaveAll("exit")
     \/ /\ current_conversation' = AddMessage(current_conversation, "user")
        /\ sent' = sent + 1
        /\ pc' = "reflect"
        /\ call' = [NoCall EXCEPT !.op = "input"]
        /\ UNCHANGED <<settings, memories, memory_log, vector_store, last_consolidation, now,
                       added, embedding, state_log, current_state>>

NoFormation == [category |-> "None"]

\* Mutant: the conversation is saved only once it holds more than FlushAt messages.
BufferFullLate(messages) == Len(messages) > FlushAt

\* main(): if len(mido.current_conversation.messages) >= 10.
BufferFull(messages) == Len(messages) >= FlushAt

\* main(): get_reflection, save_state(state_update), add_memory of the memory
\* formation if there is one, and the add_memory of save_conversation once
\* the conversation holds FlushAt messages.
Reflect ==
  /\ Running
  /\ pc = "reflect"
  /\ \E completes \in BOOLEAN, state_update \in StateUpdates,
        formation \in Inputs \cup {NoFormation} :
       /\ formation # NoFormation => Len(added) < MaxAdds
       /\ IF ~completes
          THEN /\ call' = [NoCall EXCEPT !.op = "reflect", !.raised = TRUE]
               /\ UNCHANGED <<memories, memory_log, vector_store, last_consolidation, added,
                              settings, now, state_log, current_state, pc>>
          ELSE LET formed == IF formation = NoFormation THEN Store
                             ELSE add_memory(Store,
                                    MemoryEntry(Stamp(added), "episodic", formation.category,
                                                formation.content, formation.importance,
                                                <<>>, FALSE), 0)
                   flush == ~formed.raised /\ BufferFull(current_conversation)
                   ms == IF flush
                         THEN add_memory(formed, ConversationMemory(formed, current_conversation), 0)
                         ELSE formed
               IN /\ SaveState(state_update)
                  /\ Commit(ms, "reflect")
                  /\ pc' = IF ms.raised THEN pc ELSE IF flush THEN "reset" ELSE "action"
  /\ UNCHANGED <<embedding, current_conversation, sent>>

\* save_conversation, after its add_memory: a new, empty conversation.
ResetConversation ==
  /\ Running
  /\ pc = "reset"
  /\ current_conversation' = <<>>
  /\ pc' = "action"
  /\ call' = [NoCall EXCEPT !.op = "reset"]
  /\ UNCHANGED <<settings, memories, memory_log, vector_store, last_consolidation, now, added,
                 embedding, state_log, current_state, sent>>

\* KeyboardInterrupt anywhere in the loop: save_all.
Interrupt ==
  /\ Running
  /\ InLoop
  /\ SaveAll("interrupt")

\* The store with every operation; get_relevant_memories with its default
\* filters and a limit of 1.
Next ==
  \/ \E e \in Inputs : Add(e)
  \/ Retrieve(1, NoFilter, NoFilter)
  \/ Consolidate
  \/ Prune
  \/ Restart
  \/ Tick

Spec == Init /\ [][Next]_vars

\* Retrieval with every limit and filter, within one process.
NextRetrieve ==
  \/ \E e \in Inputs : Add(e)
  \/ \E limit \in Limits, memory_type \in TypeFilters, category \in CategoryFilters :
        Retrieve(limit, memory_type, category)
  \/ Consolidate
  \/ Prune
  \/ Tick

SpecRetrieve == Init /\ [][NextRetrieve]_vars

\* Consolidation over one more entry, without retrieval and pruning.
NextConsolidate ==
  \/ \E e \in Inputs : AddWithin(e, MaxAdds + 1)
  \/ Consolidate
  \/ Restart
  \/ Tick

SpecConsolidate == Init /\ [][NextConsolidate]_vars

\* The process has ended: main() returned or an exception left it.
Ended == pc = "done" \/ ~Running

\* A day passes while main() waits for the user or after the process ended.
Wait == (pc = "input" \/ Ended) /\ Tick

\* One run of main(), from the start of the process to its end.  The
\* retention period is left at one value.
InitMiDO == Init /\ settings.memory_retention_days = 1

NextMiDO ==
  \/ GetAction
  \/ UserInput
  \/ Reflect
  \/ ResetConversation
  \/ Interrupt
  \/ Wait

SpecMiDO == InitMiDO /\ [][NextMiDO]_vars

\* A start of the program with the retention period left as it is.
StartAgain == Restart /\ settings'.memory_retention_days = settings.memory_retention_days

\* The conversation buffer and the state log over several processes.
NextLedger ==
  \/ AppendMessage("user")
  \/ Flush
  \/ \E state \in StateUpdates : Save(state)
  \/ Shutdown
  \/ StartAgain
  \/ Tick

SpecLedger == InitMiDO /\ [][NextLedger]_vars

\* A message appended to an empty conversation that can still be flushed.
AppendFirst ==
  /\ current_conversation = <<>>
  /\ Len(added) < MaxAdds
  /\ AppendMessage("user")

\* save_conversation while fewer than MaxAdds add_memory calls were made.
FlushWithin == Len(added) < MaxAdds /\ Flush

\* Every operation that reaches the memory log.
NextLog ==
  \/ \E e \in Inputs : Add(e)
  \/ Retrieve(1, NoFilter, NoFilter)
  \/ Consolidate
  \/ Prune
  \/ StartAgain
  \/ Tick
  \/ AppendFirst
  \/ FlushWithin

SpecLog == InitMiDO /\ [][NextLog]_vars

\* The embedding service and the index start or stop failing: add_documents
\* and similarity_search call them and handle none of their exceptions.
SetEmbedding(outcome) ==
  /\ outcome # embedding
  /\ embedding' = outcome
  /\ call' = [NoCall EXCEPT !.op = "embedding", !.raised = call.raised]
  /\ UNCHANGED <<settings, memories, memory_log, vector_store, last_consolidation, now, added,
                 mido>>

\* The store with an embedding service that can fail.
NextFault ==
  \/ \E outcome \in EmbeddingOutcomes : SetEmbedding(outcome)
  \/ \E e \in Inputs : Add(e)
  \/ Retrieve(2, NoFilter, NoFilter)
  \/ StartAgain
  \/ Tick

SpecFault == InitMiDO /\ [][NextFault]_vars

\* ===================================================================
\* Claims
\* ===================================================================
\* The add_memory calls whose entry was below the threshold then in force.
BelowThreshold(h) == h.entry.importance < h.threshold

DroppedTimestamps == {added[i].entry.timestamp : i \in {k \in 1..Len(added) : BelowThreshold(added[k])}}

\* C1: add_memory of an entry whose importance is below the importance
\* threshold is a no-op: the memory log, the working set and the vector
\* index are unchanged, no consolidation check runs, nothing is raised, and
\* the entry is in no later state in the log, the working set, the index or
\* a retrieval result.
C1_AddBelowThreshold ==
  /\ [][(call'.op = "add" /\ BelowThreshold(added'[Len(added) + 1]))
          => /\ memory_log' = memory_log
             /\ memories' = memories
             /\ vector_store' = vector_store
             /\ last_consolidation' = last_consolidation
             /\ Len(added') = Len(added) + 1
             /\ ~call'.checked /\ call'.runs = 0 /\ ~call'.raised]_vars
  /\ [](/\ \A j \in 1..Len(call.result) : call.result[j].timestamp \notin DroppedTimestamps
        /\ \A j \in 1..Len(memory_log) : memory_log[j][1] \notin DroppedTimestamps
        /\ \A j \in 1..Len(memories) : memories[j].timestamp \notin DroppedTimestamps
        /\ \A j \in 1..Len(vector_store) : vector_store[j].timestamp \notin DroppedTimestamps)

\* An entry was dropped by add_memory and a later retrieval returned an entry.
C1_Witness ==
  /\ call.op = "retrieve"
  /\ call.result # <<>>
  /\ DroppedTimestamps # {}


\* C2: an entry passed to add_memory has a record in the memory log if and
\* only if its importance was at least the threshold in force at that call;
\* the log only grows, and a restart, whatever threshold it starts with,
\* keeps every record of the log and loads every one into the working set.
C2_DurableIffThreshold ==
  /\ [](\A i \in 1..Len(added) :
          (\E j \in 1..Len(memory_log) : memory_log[j][1] = added[i].entry.timestamp)
            <=> added[i].entry.importance >= added[i].threshold)
  /\ [][/\ Len(memory_log') >= Len(memory_log)
        /\ SubSeq(memory_log', 1, Len(memory_log)) = memory_log
        /\ call'.op = "restart" =>
             /\ memory_log' = memory_log
             /\ \A j \in 1..Len(memory_log) :
                  \E k \in 1..Len(memories') : memories'[k].timestamp = memory_log[j][1]]_vars

\* A process started with a threshold above the importance of a loaded entry.
C2_Witness ==
  /\ call.op = "restart"
  /\ \E j \in 1..Len(memories) : memories[j].importance < settings.importance_threshold
  /\ \E j \in 1..Len(memory_log) : memory_log[j][5] < settings.importance_threshold

SameExceptAccess(a, b) ==
  [a EXCEPT !.last_accessed = <<>>, !.access_count = 0]
    = [b EXCEPT !.last_accessed = <<>>, !.access_count = 0]

\* C3: after a restart the working set holds, for every entry that passed
\* the gate of add_memory, exactly one entry equal to it in every field but
\* last_accessed and access_count, whatever retrievals, consolidation runs
\* or prunings came between the add and the restart.
C3_AddThenLoad ==
  call.op = "restart" =>
    \A i \in 1..Len(added) :
      added[i].entry.importance >= added[i].threshold =>
        Cardinality({j \in 1..Len(memories) : SameExceptAccess(memories[j], added[i].entry)}) = 1

\* A restart loaded a synthesized entry and its sources: a consolidation run
\* came between the adds and the restart.
C3_Witness ==
  /\ call.op = "restart"
  /\ \E j, k \in 1..Len(memories) :
       /\ memories[j].references # <<>>
       /\ memories[k].timestamp = memories[j].references[1]
       /\ ~memories[k].consolidated


DistinctTimestamps(result) ==
  \A a, b \in 1..Len(result) : a # b => result[a].timestamp # result[b].timestamp

\* C4: what get_relevant_memories returns has at most `limit` entries and no
\* two of them share a timestamp, for every limit, every filter and every
\* index, an index with several chunks of one entry included.
C4_ResultBounded ==
  call.op = "retrieve" =>
    /\ Len(call.result) <= call.limit
    /\ DistinctTimestamps(call.result)

\* A retrieval with limit 2 whose hits held two chunks of one entry and that
\* returned two entries.
C4_Witness ==
  /\ call.op = "retrieve"
  /\ call.limit = 2
  /\ Len(call.result) = 2
  /\ \E a, b \in 1..Len(call.hits) : a # b /\ call.hits[a] = call.hits[b]

FirstHit(hits, timestamp) ==
  CHOOSE a \in 1..Len(hits) :
    hits[a] = timestamp /\ \A b \in 1..(a - 1) : hits[b] # timestamp

\* C5: in one call of get_relevant_memories an entry is selected by the first
\* of its hits and its later hits are discarded: the result lists the
\* selected entries once each, in the order of their first hits, and the
\* access_count of an entry grows by exactly 1 if it is returned and by 0 if
\* it is not, however many of its chunks were hit.
C5_FirstHitWins ==
  [][call'.op = "retrieve" =>
       /\ Len(memories') = Len(memories)
       /\ \A i \in 1..Len(memories) :
            LET at == {j \in 1..Len(call'.result) :
                         call'.result[j].timestamp = memories[i].timestamp}
            IN /\ Cardinality(at) <= 1
               /\ memories'[i].access_count =
                    memories[i].access_count + (IF at = {} THEN 0 ELSE 1)
               /\ \A j \in at : call'.result[j] = memories'[i]
               /\ memories'[i].timestamp = memories[i].timestamp
       /\ \A a, b \in 1..Len(call'.result) :
            a < b => FirstHit(call'.hits, call'.result[a].timestamp)
                       < FirstHit(call'.hits, call'.result[b].timestamp)]_vars

\* A retrieval whose two best hits were chunks of one entry and that returned
\* that entry and another one, each accessed once.
C5_Witness ==
  /\ call.op = "retrieve"
  /\ Len(call.hits) >= 3
  /\ call.hits[1] = call.hits[2]
  /\ Len(call.result) = 2
  /\ call.result[1].timestamp = call.hits[1]
  /\ call.result[1].access_count = 1


UnconsolidatedIn(mems, c) ==
  {i \in 1..Len(mems) : ~mems[i].consolidated /\ mems[i].category = c}

MaxOf(S) == CHOOSE x \in S : \A y \in S : y <= x

\* C6: a consolidation run adds, for every category with at least 2
\* unconsolidated entries in the working set, exactly one entry, of type
\* semantic, with the largest source importance, the source timestamps as
\* references and consolidated = TRUE, and leaves every source flagged
\* consolidated; for a category with fewer than 2 unconsolidated entries it
\* adds no entry and leaves the entries unflagged.
C6_OneSummaryPerCategory ==
  [][call'.op = "consolidate" =>
       /\ Len(memories') >= Len(memories)
       /\ \A c \in MemoryCategory :
            LET src == UnconsolidatedIn(memories, c)
                new == {k \in (Len(memories) + 1)..Len(memories') : memories'[k].category = c}
            IN IF Cardinality(src) >= 2
               THEN /\ Cardinality(new) = 1
                    /\ \A k \in new :
                         /\ memories'[k].memory_type = "semantic"
                         /\ memories'[k].importance = MaxOf({memories[i].importance : i \in src})
                         /\ Len(memories'[k].references) = Cardinality(src)
                         /\ {memories'[k].references[x] : x \in 1..Len(memories'[k].references)}
                              = {memories[i].timestamp : i \in src}
                         /\ memories'[k].consolidated
                    /\ \A i \in src : memories'[i].consolidated
               ELSE /\ new = {}
                    /\ \A i \in src : ~memories'[i].consolidated]_vars

\* C7: a consolidation run that directly follows an operation that ran the
\* consolidation engine, with no add in between, synthesizes nothing: the
\* memory log, the working set and the vector index stay as the first run
\* left them and add_memory is not called.
C7_SecondRunAddsNothing ==
  [][(call.runs >= 1 /\ call'.op = "consolidate") =>
       /\ memory_log' = memory_log
       /\ memories' = memories
       /\ vector_store' = vector_store
       /\ added' = added]_vars

\* A second run in a row over a working set that holds a synthesized entry
\* whose sources are flagged.
C7_Witness ==
  /\ call.op = "consolidate"
  /\ call.again
  /\ call.runs = 1
  /\ \E k \in 1..Len(memories) :
       /\ memories[k].references # <<>>
       /\ \A x \in 1..Len(memories[k].references) :
            \E i \in 1..Len(memories) :
              memories[i].timestamp = memories[k].references[x] /\ memories[i].consolidated

\* C8: no two consolidation runs are ever nested: the add_memory call that
\* inserts a synthesized entry starts no consolidation run while the run that
\* synthesized it has not flagged its sources.
C8_NoNestedRuns == call.nest <= 1


\* The age of an entry, in days.
Age(m) == now - m.timestamp[1]

RetainedAtCutoff(m) ==
  \/ Age(m) <= settings.memory_retention_days
  \/ m.importance >= settings.pruning_importance_threshold
  \/ m.access_count >= settings.min_access_keep
  \/ m.consolidated

RetainedBeforeCutoff(m) ==
  \/ Age(m) < settings.memory_retention_days
  \/ m.importance >= settings.pruning_importance_threshold
  \/ m.access_count >= settings.min_access_keep
  \/ m.consolidated

\* C9, as stated: prune_memories keeps an entry if and only if its age is at
\* most the retention period, or its importance is at least the pruning
\* importance threshold, or its access_count is at least min_access_keep, or
\* it is consolidated; the kept entries stay in their order.
C9_KeepsAtCutoff ==
  [][call'.op = "prune" =>
       memories' = SelectSeq(memories, LAMBDA m : RetainedAtCutoff(m))]_vars

\* C9, amended: prune_memories keeps an entry if and only if its age is
\* strictly less than the retention period, or its importance is at least the
\* pruning importance threshold, or its access_count is at least
\* min_access_keep, or it is consolidated; the kept entries stay in their
\* order.
C9_KeepsBeforeCutoff ==
  [][call'.op = "prune" =>
       memories' = SelectSeq(memories, LAMBDA m : RetainedBeforeCutoff(m))]_vars

\* A pruning that evicted an entry whose age was exactly the retention period
\* and kept another entry.
C9_Witness ==
  /\ call.op = "prune"
  /\ memories # <<>>
  /\ \E x \in 1..Len(call.evicted) : Age(call.evicted[x]) = settings.memory_retention_days

\* C10: after prune_memories the vector index holds chunks of exactly the
\* entries of the working set: no chunk of an evicted entry is left in it.
C10_IndexRebuilt ==
  call.op = "prune" =>
    {vector_store[i].timestamp : i \in 1..Len(vector_store)}
      = {memories[j].timestamp : j \in 1..Len(memories)}

IsPrefix(a, b) == Len(a) <= Len(b) /\ SubSeq(b, 1, Len(a)) = a

\* C11: the memory log is append-only: under add_memory, retrieval,
\* consolidation, pruning, a conversation flush and a restart the log before
\* the operation is a prefix of the log after it, and prune_memories leaves
\* the log exactly as it was.
C11_LogAppendOnly ==
  [][/\ IsPrefix(memory_log, memory_log')
     /\ call'.op \in {"prune", "retrieve", "restart"} => memory_log' = memory_log]_vars

\* A pruning evicted an entry from the working set while the log holds its
\* record and the record of a flushed conversation.
C11_Witness ==
  /\ call.op = "prune"
  /\ \E x \in 1..Len(call.evicted) :
       \E j \in 1..Len(memory_log) : memory_log[j][1] = call.evicted[x].timestamp
  /\ \E j \in 1..Len(memory_log) : memory_log[j][2] = "conversation"


\* C12: no record is duplicated, restarts included: the vector index holds
\* every chunk of every working-set entry exactly once, the memory log holds
\* at most one record per timestamp and exactly one for every entry that
\* passed the gate of add_memory, and the working set holds at most one entry
\* per timestamp.
C12_NoDuplicates ==
  /\ \A j \in 1..Len(memories) :
       /\ \E i \in 1..Len(vector_store) : vector_store[i].timestamp = memories[j].timestamp
       /\ \A i \in 1..Len(vector_store) :
            vector_store[i].timestamp = memories[j].timestamp
              => Copies(vector_store, vector_store[i]) = 1
  /\ \A i \in 1..Len(added) :
       added[i].entry.importance >= added[i].threshold =>
         Cardinality({j \in 1..Len(memory_log) : memory_log[j][1] = added[i].entry.timestamp}) = 1
  /\ \A a, b \in 1..Len(memory_log) : a # b => memory_log[a][1] # memory_log[b][1]
  /\ \A a, b \in 1..Len(memories) : a # b => memories[a].timestamp # memories[b].timestamp


\* C13: the current state is the most recently appended record of the state
\* log, or the configured initial state while the log is empty, after every
\* sequence of saves and restarts; a save appends exactly one record and no
\* step alters an earlier record.
C13_StateIsLastRecord ==
  /\ [](current_state =
          IF state_log = <<>> THEN initial_state
          ELSE [current_focus |-> state_log[Len(state_log)][1],
                energy_level |-> state_log[Len(state_log)][2]])
  /\ [][/\ IsPrefix(state_log, state_log')
        /\ call'.op = "save" => Len(state_log') = Len(state_log) + 1
        /\ call'.op \in {"restart", "flush", "append"} => state_log' = state_log]_vars

\* A process started on a state log whose last record differs from its first
\* and from the initial state.
C13_Witness ==
  /\ call.op = "restart"
  /\ Len(state_log) >= 2
  /\ state_log[1] # state_log[Len(state_log)]
  /\ current_state # initial_state


\* The entries of type conversation among those passed to add_memory after
\* position n of the history.
ConversationAddsAfter(hist, n) ==
  {i \in (n + 1)..Len(hist) : hist[i].entry.memory_type = "conversation"}

\* C14: a flush of an empty buffer builds no entry, calls no add and leaves the
\* buffer empty; a flush of n >= 1 messages passes to add exactly one entry of
\* type conversation with importance 5, message_count n and the n messages in
\* their append order, and leaves the buffer empty.
C14_FlushPassesOneEntry ==
  [][call'.op = "flush" =>
       IF current_conversation = <<>>
       THEN added' = added /\ current_conversation' = <<>>
       ELSE /\ Cardinality(ConversationAddsAfter(added', Len(added))) = 1
            /\ LET e == added'[Len(added) + 1].entry
               IN /\ e.memory_type = "conversation"
                  /\ e.importance = 5
                  /\ e.message_count = Len(current_conversation)
                  /\ e.conversation = current_conversation
            /\ current_conversation' = <<>>]_vars


\* C15: in the loop the conversation never holds more than 10 messages; a
\* turn that completes on a conversation of 10 messages passes exactly one
\* conversation entry to add_memory and goes on to the reset of the buffer;
\* every conversation entry added by a turn carries message_count = 10 and
\* the 10 buffered messages.
C15_AutoFlushAtTen ==
  /\ [](Len(current_conversation) <= 10)
  /\ [](pc \in {"action", "input"} => Len(current_conversation) < 10)
  /\ [][call'.op = "reflect" =>
          LET new == ConversationAddsAfter(added', Len(added))
          IN /\ Len(current_conversation) = 10 /\ ~call'.raised =>
                  Cardinality(new) = 1 /\ pc' = "reset"
             /\ Len(current_conversation) < 10 => new = {}
             /\ \A i \in new :
                  /\ added'[i].entry.message_count = 10
                  /\ added'[i].entry.conversation = current_conversation]_vars
  /\ [][call'.op = "reset" => current_conversation' = <<>> /\ added' = added]_vars

\* The turn that filled the conversation has passed its entry to add_memory
\* and the buffer is about to be reset.
C15_Witness ==
  /\ pc = "reset"
  /\ call.op = "reflect"
  /\ Len(current_conversation) = 10
  /\ added[Len(added)].entry.memory_type = "conversation"
  /\ added[Len(added)].entry.message_count = 10


\* The working-set entries of type conversation that carry message n.
Carriers(n) ==
  {i \in 1..Len(memories) :
     /\ memories[i].memory_type = "conversation"
     /\ \E a \in 1..Len(memories[i].conversation) : memories[i].conversation[a].n = n}

\* C16: every message appended to the conversation buffer is carried by at
\* most one conversation memory entry, and once a shutdown by exit command or
\* keyboard interrupt has completed under a threshold of at most 5, by
\* exactly one.
C16_EachMessageFlushedOnce ==
  /\ \A n \in 1..sent : Cardinality(Carriers(n)) <= 1
  /\ pc = "done" /\ settings.importance_threshold <= 5 =>
       \A n \in 1..sent : Cardinality(Carriers(n)) = 1


\* C17: under an importance threshold above 5 the flush of a non-empty
\* conversation buffer raises nothing, leaves the memory log, the working set
\* and the index as they were, and empties the buffer.
C17_FlushDropsBelowThreshold ==
  [][/\ call'.op = "flush"
     /\ settings.importance_threshold > 5
     /\ current_conversation # <<>>
     => /\ ~call'.raised
        /\ memory_log' = memory_log
        /\ memories' = memories
        /\ vector_store' = vector_store
        /\ current_conversation' = <<>>]_vars

\* A flush of two buffered messages under threshold 7 has returned: the
\* entry was passed to add_memory and nothing of it is stored.
C17_Witness ==
  /\ call.op = "flush"
  /\ settings.importance_threshold = 7
  /\ added # <<>>
  /\ added[Len(added)].entry.message_count = 2
  /\ current_conversation = <<>>
  /\ memory_log = <<>>


\* C18: whatever operation starts it, a consolidation run starts only when
\* the time since the last consolidation exceeds the configured interval.
C18_RunsOnlyAfterInterval ==
  [][call'.runs >= 1 =>
       (now - last_consolidation) * 24 > settings.consolidation_interval_hours]_vars


\* A step of the loop in which get_action or get_reflection raised: the turn
\* stopped before anything of it was saved.
CompletionFailed ==
  /\ call'.raised
  /\ \/ call'.op = "action"
     \/ call'.op = "reflect" /\ state_log' = state_log

\* C19: a turn whose completion step fails is the only thing aborted: the
\* loop has not ended and goes on to a later turn.
C19_FailedTurnOnlyAborted ==
  [][CompletionFailed => ~Ended' /\ pc' = "action"]_vars


\* The timestamps among the hits of the last retrieval that no working-set
\* entry carries.
OrphanHits ==
  {call.hits[j] : j \in 1..Len(call.hits)} \ {memories[i].timestamp : i \in 1..Len(memories)}

\* C20: an add_memory whose indexing step fails raises to its caller and
\* leaves the memory log and the working set as they were before the call; a
\* retrieval that meets an index hit without a working-set entry returns
\* normally and its result holds no entry for that hit.
C20_FailedAddLeavesLog ==
  /\ [][/\ call'.op = "add"
        /\ embedding # "ok"
        /\ added'[Len(added) + 1].entry.importance >= settings.importance_threshold
        => /\ call'.raised
           /\ memory_log' = memory_log
           /\ memories' = memories]_vars
  /\ [](call.op = "retrieve" /\ OrphanHits # {} =>
          /\ ~call.raised
          /\ \A j \in 1..Len(call.result) : call.result[j].timestamp \notin OrphanHits)

\* An add failed after its first chunk reached the index; the process was
\* started again and a retrieval met that chunk beside a stored entry.
C20_Witness ==
  /\ call.op = "retrieve"
  /\ call.result # <<>>
  /\ \E i \in 1..Len(added) :
       /\ added[i].entry.importance >= added[i].threshold
       /\ added[i].entry.timestamp \in OrphanHits
       /\ \A j \in 1..Len(memory_log) : memory_log[j][1] # added[i].entry.timestamp


\* C21: the access_count of an entry is never lower than in an earlier
\* state, whatever operation lies between the two, and a retrieval adds one
\* to the access_count of each entry it returns.
C21_AccessCountMonotone ==
  [][/\ \A i \in 1..Len(memories) : \A j \in 1..Len(memories') :
          memories'[j].timestamp = memories[i].timestamp =>
            memories'[j].access_count >= memories[i].access_count
     /\ call'.op = "retrieve" =>
          \A r \in 1..Len(call'.result) : \A i \in 1..Len(memories) :
            memories[i].timestamp = call'.result[r].timestamp =>
              call'.result[r].access_count = memories[i].access_count + 1]_vars


\* The synthesized entries of category c passed to add_memory after position
\* n of the history.
SummariesAfter(hist, n, c) ==
  {i \in (n + 1)..Len(hist) :
     hist[i].entry.references # <<>> /\ hist[i].entry.category = c}

\* C22: every add_memory call returns, the one whose trigger check starts a
\* consolidation run included, and creates at most one synthesized entry per
\* category on the way.
C22_AddReturns ==
  [][call'.op = "add" =>
       /\ ~call'.raised
       /\ \A c \in MemoryCategory :
            Cardinality(SummariesAfter(added', Len(added), c)) <= 1]_vars


\* The timestamps among the hits of the last retrieval that resolve to an
\* entry of the working set.
ResolvedHits ==
  {call.hits[j] : j \in 1..Len(call.hits)} \cap {memories[i].timestamp : i \in 1..Len(memories)}

\* C23: every entry get_relevant_memories returns is an entry of the working
\* set, found through one of the hits; a hit whose timestamp resolves to no
\* working-set entry raises nothing, changes no access counter and takes no
\* place in the result: the result holds as many entries as the limit
\* allows of the hits that resolve.
C23_OrphanHitSkipped ==
  /\ [](call.op = "retrieve" =>
          /\ ~call.raised
          /\ \A r \in 1..Len(call.result) :
               /\ \E i \in 1..Len(memories) : memories[i] = call.result[r]
               /\ call.result[r].timestamp \in ResolvedHits
          /\ Len(call.result) = Min(call.limit, Cardinality(ResolvedHits)))
  /\ [][call'.op = "retrieve" =>
          SumAccess(memories') = SumAccess(memories) + Len(call'.result)]_vars

\* A retrieval whose best hit was a chunk of an entry no longer in the
\* working set and that still returned as many entries as the limit.
C23_Witness ==
  /\ call.op = "retrieve"
  /\ call.limit >= 1
  /\ Len(call.hits) >= 2
  /\ call.hits[1] \notin ResolvedHits
  /\ Len(call.result) = call.limit


\* The records of the memory log that are synthesized summaries with
\* timestamp t among their references.
SummariesOf(t) ==
  {j \in 1..Len(memory_log) :
     \E x \in 1..Len(memory_log[j][6]) : memory_log[j][6][x] = t}

\* C24: an entry is merged into at most one synthesized summary, restarts
\* included: no timestamp occurs in the references of two summaries in the
\* memory log, and an entry flagged consolidated in the working set is
\* flagged in every later state.
C24_MergedOnce ==
  /\ [](\A j \in 1..Len(memory_log) : Cardinality(SummariesOf(memory_log[j][1])) <= 1)
  /\ [][\A i \in 1..Len(memories) : \A k \in 1..Len(memories') :
          memories[i].consolidated /\ memories'[k].timestamp = memories[i].timestamp
            => memories'[k].consolidated]_vars


\* The timestamps of the records of the memory log, and of the entries of
\* the working set, that consolidation created.
SummaryTimestamps ==
  {memory_log[j][1] : j \in {k \in 1..Len(memory_log) : memory_log[k][6] # <<>>}}
    \cup {memories[i].timestamp : i \in {k \in 1..Len(memories) : memories[k].references # <<>>}}

\* C25: a synthesized summary is never a source of a later summary: no
\* references list, in the memory log or in the working set, holds the
\* timestamp of an entry that consolidation created.
C25_SummaryNeverSource ==
  /\ \A j \in 1..Len(memory_log) : \A x \in 1..Len(memory_log[j][6]) :
       memory_log[j][6][x] \notin SummaryTimestamps
  /\ \A i \in 1..Len(memories) : \A x \in 1..Len(memories[i].references) :
       memories[i].references[x] \notin SummaryTimestamps

\* A run outside add_memory has returned over a working set that already
\* held a summary, and the log holds two summaries.
C25_Witness ==
  /\ call.op = "consolidate"
  /\ ~call.raised
  /\ call.runs = 1
  /\ Cardinality({j \in 1..Len(memory_log) : memory_log[j][6] # <<>>}) >= 2


\* s is a subsequence of t: the elements of s occur in t in the same order.
RECURSIVE IsSubsequence(_, _)
IsSubsequence(s, t) ==
  IF s = <<>> THEN TRUE
  ELSE IF t = <<>> THEN FALSE
  ELSE IF Head(s) = Head(t) THEN IsSubsequence(Tail(s), Tail(t))
  ELSE IsSubsequence(s, Tail(t))

\* C26: the timestamps of the working set are a subsequence of the
\* timestamps of the memory log in write order, in every state; right after
\* a restart the working set is the whole log, record by record, the
\* entries an earlier pruning evicted included.
C26_WorkingSetWithinLog ==
  /\ [](IsSubsequence([i \in 1..Len(memories) |-> memories[i].timestamp],
                      [j \in 1..Len(memory_log) |-> memory_log[j][1]]))
  /\ [](call.op = "restart" =>
          /\ Len(memories) = Len(memory_log)
          /\ \A j \in 1..Len(memory_log) :
               /\ memories[j].timestamp = memory_log[j][1]
               /\ memories[j].category = memory_log[j][3]
               /\ memories[j].importance = memory_log[j][5]
               /\ memories[j].references = memory_log[j][6]
               /\ memories[j].access_count = memory_log[j][8]
               /\ memories[j].consolidated = memory_log[j][9])

\* The process was started again after a pruning had evicted an entry, and
\* the entry is in the working set.
C26_Witness ==
  /\ call.op = "restart"
  /\ call.restored # <<>>
  /\ \E i \in 1..Len(memories) : memories[i].timestamp = call.restored[1]


\* C27: get_relevant_memories changes nothing but the access bookkeeping of
\* the entries it returns: the memory log, the vector index and the time of
\* the last consolidation are unchanged, the working set keeps its entries
\* in their order with every field other than access_count and
\* last_accessed, and an entry that is not returned is unchanged.
C27_RetrieveFrame ==
  [][call'.op = "retrieve" =>
       /\ memory_log' = memory_log
       /\ vector_store' = vector_store
       /\ last_consolidation' = last_consolidation
       /\ Len(memories') = Len(memories)
       /\ \A i \in 1..Len(memories) :
            /\ [memories'[i] EXCEPT !.access_count = memories[i].access_count,
                                    !.last_accessed = memories[i].last_accessed] = memories[i]
            /\ (\A r \in 1..Len(call'.result) :
                  call'.result[r].timestamp # memories[i].timestamp)
                 => memories'[i] = memories[i]]_vars

\* A retrieval over a working set of two entries returned one of them, whose
\* bookkeeping it changed, and not the other.
C27_Witness ==
  /\ call.op = "retrieve"
  /\ Len(memories) >= 2
  /\ Len(call.result) = 1
  /\ call.result[1].last_accessed # <<>>
  /\ \E i \in 1..Len(memories) :
       memories[i].timestamp # call.result[1].timestamp /\ memories[i].access_count = 0


\* The current state is the last record of the state log.
AlreadySaved ==
  /\ state_log # <<>>
  /\ state_log[Len(state_log)][1] = current_state.current_focus
  /\ state_log[Len(state_log)][2] = current_state.energy_level

\* C28: a shutdown appends the current state to the state log only if it is
\* not already saved: when the current state is the last record of the
\* state log, save_all leaves the state log as it is.
C28_ShutdownSavesOnce ==
  [][call'.op \in {"exit", "interrupt"} /\ AlreadySaved => state_log' = state_log]_vars

====
